---- MODULE Spec2Model ----
(***************************************************************************)
(* Model of rust-p2p-storage/src/main.rs: the two axum handlers            *)
(* store_chunk and retrieve_file_chunks over one shared sled database.     *)
(*                                                                         *)
(* Keys are byte strings (sequences of byte values).  Values are the JSON  *)
(* bytes of StoredChunkValue, kept as a token sequence.  The sled database *)
(* is modelled by its visible contents (db), its crash-durable contents    *)
(* (disk) and the puts that are visible but not yet durable (pending).     *)
(***************************************************************************)
EXTENDS Integers, Sequences, FiniteSets, TLC

(* ---------------------------- bounds ---------------------------------- *)
\* puts that store_chunk calls apply in one behaviour
MaxPuts == 3
\* store_chunk requests that can be in flight at once (tokio tasks)
NumTasks == 2
\* Err items one scan_prefix iteration may yield
MaxIterErrs == 1

(* ---------------------------- inputs ---------------------------------- *)
\* the ':' of format!("{}:{}", ..) and format!("{}:", ..)
Colon == 58

\* The POST /store requests, as <<fileKey, chunkHash, chunkData>>:
\*   a/a with either payload, a/b, a/c : several chunks of one file
\*   ab/a  : a fileKey that "a" is a proper prefix of
\*   a:b/c : a fileKey that contains the separator (nothing is validated)
StoreRequests ==
    { << <<97>>, <<97>>, "QQ==" >>,
      << <<97>>, <<97>>, "Qg==" >>,
      << <<97>>, <<98>>, "QQ==" >>,
      << <<97>>, <<99>>, "Qg==" >>,
      << <<97, 98>>, <<97>>, "QQ==" >>,
      << <<97, 58, 98>>, <<99>>, "Qg==" >> }
\* the fileKey, chunkHash and chunkData values that occur in them
FileKeys == { r[1] : r \in StoreRequests }
ChunkHashes == { r[2] : r \in StoreRequests }
Payloads == { r[3] : r \in StoreRequests }
\* the fileKey values of the GET /file/:fileKey requests: "a" and "ab"
ReadKeys == { <<97>>, <<97, 98>> }
Tasks == 1..NumTasks

(* ------------------------- byte strings ------------------------------- *)
Min(a, b) == IF a < b THEN a ELSE b
Max(a, b) == IF a < b THEN b ELSE a

\* s starts with p (sled scan_prefix's test on the key bytes)
StartsWith(p, s) ==
    /\ Len(p) <= Len(s)
    /\ \A i \in 1..Len(p) : s[i] = p[i]

\* byte-wise lexicographic order of sled's keys (Ord for [u8])
LexLess(a, b) ==
    \E i \in 1..(Min(Len(a), Len(b)) + 1) :
        /\ \A j \in 1..(i - 1) : a[j] = b[j]
        /\ \/ i > Len(a) /\ i <= Len(b)
           \/ i <= Len(a) /\ i <= Len(b) /\ a[i] < b[i]

\* String::from_utf8 succeeds.  The bytes of the model are ASCII bytes and
\* 0xFF; on those a byte string is UTF-8 exactly when it holds no 0xFF.
Utf8Valid(k) == \A i \in 1..Len(k) : k[i] < 128

(* --------------------------- key scheme ------------------------------- *)
\* let db_key = format!("{}:{}", payload.file_key, payload.chunk_hash)
DbKey(file_key, chunk_hash) == file_key \o <<Colon>> \o chunk_hash

\* mutant: the scan prefix without the separator
PrefixNoColon(file_key) == file_key

\* let prefix = format!("{}:", file_key)
Prefix(file_key) == file_key \o <<Colon>>

(* ----------------------------- codec ---------------------------------- *)
\* mutant: the envelope written under a field name the reader does not know
ToVecWrongField(value) == << "{\"data\":", value, "}" >>

\* serde_json::to_vec(&StoredChunkValue { value }) : the bytes {"value":"<value>"}
ToVec(value) == << "{\"value\":", value, "}" >>

\* serde_json::from_slice::<StoredChunkValue>(bytes)
FromSlice(bytes) ==
    IF Len(bytes) = 3 /\ bytes[1] = "{\"value\":" /\ bytes[3] = "}"
    THEN [ok |-> TRUE, value |-> bytes[2]]
    ELSE [ok |-> FALSE, value |-> ""]

(* ------------------------- the sled database -------------------------- *)
EmptyStore == [k \in {} |-> <<>>]

\* mutant: an insert that keeps the value already stored under the key
InsertKeepFirst(store, k, v) ==
    [x \in DOMAIN store \cup {k} |-> IF x \in DOMAIN store THEN store[x] ELSE v]

\* mutant: an insert that writes the value over every entry
InsertClobber(store, k, v) == [x \in DOMAIN store \cup {k} |-> v]

\* mutant: an insert that drops every other entry
InsertSingle(store, k, v) == [x \in {k} |-> v]

\* db.insert(key, value): atomic single-key put, replacing any old value
Insert(store, k, v) ==
    [x \in DOMAIN store \cup {k} |-> IF x = k THEN v ELSE store[x]]

\* the store after the puts of a log are applied in order (sled recovery)
RECURSIVE Replay(_, _)
Replay(store, puts) ==
    IF puts = <<>> THEN store
    ELSE Replay(Insert(store, puts[1].key, puts[1].value), Tail(puts))

\* mutant: iteration from the largest key down
MaxKeyFirst(S) == CHOOSE k \in S : \A x \in S : x = k \/ LexLess(x, k)

\* the key sled's iterator yields first among S: the smallest one
FirstKey(S) == CHOOSE k \in S : \A x \in S : x = k \/ LexLess(k, x)

\* the keys of S in iteration order
RECURSIVE KeyOrder(_)
KeyOrder(S) ==
    IF S = {} THEN <<>>
    ELSE LET k == FirstKey(S) IN <<k>> \o KeyOrder(S \ {k})

\* mutant: an iterator that advances past an entry when it returns Err
ScanPrefixErrConsumes(store, prefix, nerr, errAt) ==
    LET keys  == KeyOrder({k \in DOMAIN store : StartsWith(prefix, k)})
        oks   == [i \in 1..Len(keys) |->
                     [ok |-> TRUE, key |-> keys[i], value |-> store[keys[i]]]]
        errs  == [i \in 1..nerr |-> [ok |-> FALSE, key |-> <<>>, value |-> <<>>]]
        at    == Min(errAt, Len(keys) + 1)
    IN  SubSeq(oks, 1, at - 1) \o errs \o SubSeq(oks, at + nerr, Len(oks))

\* mutant: a scan that leaves out the keys holding a further separator
\* after the prefix
ScanPrefixNoNested(store, prefix, nerr, errAt) ==
    LET keys  == KeyOrder({k \in DOMAIN store :
                     /\ StartsWith(prefix, k)
                     /\ \A i \in (Len(prefix) + 1)..Len(k) : k[i] # Colon})
        oks   == [i \in 1..Len(keys) |->
                     [ok |-> TRUE, key |-> keys[i], value |-> store[keys[i]]]]
        errs  == [i \in 1..nerr |-> [ok |-> FALSE, key |-> <<>>, value |-> <<>>]]
        at    == Min(errAt, Len(keys) + 1)
    IN  SubSeq(oks, 1, at - 1) \o errs \o SubSeq(oks, at, Len(oks))

\* the items db.scan_prefix(prefix) yields: the entries whose key starts with
\* the prefix, in ascending key order, as Ok((key, value)); and, before the
\* entry at position errAt, nerr items Err(_).  sled's iterator returns an
\* Err without advancing its cursor, so an Err consumes no entry.
ScanPrefix(store, prefix, nerr, errAt) ==
    LET keys  == KeyOrder({k \in DOMAIN store : StartsWith(prefix, k)})
        oks   == [i \in 1..Len(keys) |->
                     [ok |-> TRUE, key |-> keys[i], value |-> store[keys[i]]]]
        errs  == [i \in 1..nerr |-> [ok |-> FALSE, key |-> <<>>, value |-> <<>>]]
        at    == Min(errAt, Len(keys) + 1)
    IN  SubSeq(oks, 1, at - 1) \o errs \o SubSeq(oks, at, Len(oks))

\* mutant: the loop gives up at the first entry it cannot decode
RECURSIVE CollectUntilBad(_)
CollectUntilBad(items) ==
    IF items = <<>> THEN <<>>
    ELSE LET it == items[1] IN
         IF ~it.ok THEN CollectUntilBad(Tail(items))
         ELSE IF ~Utf8Valid(it.key) \/ ~FromSlice(it.value).ok THEN <<>>
         ELSE <<[key |-> it.key, value |-> FromSlice(it.value).value]>>
                  \o CollectUntilBad(Tail(items))

\* mutant: the loop keeps a key that is not UTF-8 (a lossy conversion)
RECURSIVE CollectLossyKey(_)
CollectLossyKey(items) ==
    IF items = <<>> THEN <<>>
    ELSE LET it == items[1] IN
         IF ~it.ok THEN CollectLossyKey(Tail(items))
         ELSE IF ~FromSlice(it.value).ok THEN CollectLossyKey(Tail(items))
         ELSE <<[key |-> it.key, value |-> FromSlice(it.value).value]>>
                  \o CollectLossyKey(Tail(items))

\* the body of `for result in db.scan_prefix(..)`: the chunks vector
RECURSIVE Collect(_)
Collect(items) ==
    IF items = <<>> THEN <<>>
    ELSE LET it == items[1] IN
         IF ~it.ok THEN Collect(Tail(items))                    \* Err(_) => continue
         ELSE IF ~Utf8Valid(it.key) THEN Collect(Tail(items))   \* from_utf8 Err => continue
         ELSE IF ~FromSlice(it.value).ok THEN Collect(Tail(items)) \* from_slice Err => continue
         ELSE <<[key |-> it.key, value |-> FromSlice(it.value).value]>>
                  \o Collect(Tail(items))

(* ------------------------ status of a response ------------------------ *)
\* mutant: the flush result is ignored
StoreStatusNoFlush(encOk, putOk, flushOk) ==
    IF encOk /\ putOk THEN 200 ELSE 500

\* the StatusCode store_chunk returns
StoreStatus(encOk, putOk, flushOk) ==
    IF ~encOk THEN 500           \* serde_json::to_vec Err
    ELSE IF ~putOk THEN 500      \* db.insert Err
    ELSE IF ~flushOk THEN 500    \* flush_async().await is_err()
    ELSE 200

\* retrieve_file_chunks ends in Ok(Json(response)) on every path
RetrieveStatus(nerr) == 200

\* mutant: success is returned without waiting for the flush
FlushedNothing(need) == 0

\* db.flush_async().await returning Ok: every put issued before the call is
\* durable, so the flush wrote (at least) the first `need` pending puts.
\* What a flush writes beyond those is a step of BackgroundFlush.
Flushed(need) == need

\* bookkeeping: f with x mapped to v
Record(f, x, v) == [y \in DOMAIN f \cup {x} |-> IF y = x THEN v ELSE f[y]]

(* ------------------------------ state --------------------------------- *)
VARIABLES
    db,        \* sled: key -> value bytes, as every reader sees it
    disk,      \* sled: the contents a crash recovers
    pending,   \* the puts applied to db and not yet to disk, oldest first
    tasks,     \* the store_chunk request each task slot is running
    latest,    \* per key: the payload of the put applied last, its call, and
               \* whether a crash has discarded that put
    acked,     \* keys some store_chunk call answered 200 for
    written,   \* fileKeys under which a put was ever applied
    last,      \* the step taken last and the response it produced
    nwrites    \* puts applied so far

vars == <<db, disk, pending, tasks, latest, acked, written, last, nwrites>>

IdleTask == [pc |-> "idle", key |-> <<>>, value |-> "", need |-> 0, over |-> FALSE]

NoLast ==
    [op |-> "init", fileKey |-> <<>>, respFileKey |-> <<>>, key |-> <<>>, value |-> "",
     status |-> 0, chunks |-> <<>>, nerr |-> 0, encOk |-> FALSE, putOk |-> FALSE,
     flushOk |-> FALSE, nput |-> 0, nflush |-> 0, lost |-> 0, over |-> FALSE]

\* Entries found in "my_database" when sled::open opens it that no store_chunk
\* call wrote: "a:a" with bytes that are no StoredChunkValue, and the key
\* "a:" followed by the byte 0xFF, which is not UTF-8.
ForeignEntries ==
    Insert(Insert(EmptyStore, <<97, 58, 97>>, << "garbage" >>),
           <<97, 58, 255>>, ToVec("QQ=="))

\* let db = sled::open("my_database")
Init ==
    /\ db \in {EmptyStore, ForeignEntries}
    /\ disk = db
    /\ pending = <<>>
    /\ tasks = [t \in Tasks |-> IdleTask]
    /\ latest = EmptyStore
    /\ acked = {}
    /\ written = {}
    /\ last = NoLast
    /\ nwrites = 0

\* n pending puts become durable
FlushState(n) ==
    /\ disk' = Replay(disk, SubSeq(pending, 1, n))
    /\ pending' = SubSeq(pending, n + 1, Len(pending))

\* the task table after n pending puts became durable and task t returned
TasksAfterFlush(t, n) ==
    [u \in Tasks |->
        IF u = t THEN IdleTask
        ELSE [tasks[u] EXCEPT !.need = Max(0, tasks[u].need - n)]]

(* ---------------------------- store_chunk ----------------------------- *)
\* a new request runs in the first free task slot
FreeSlot(t) ==
    /\ tasks[t].pc = "idle"
    /\ \A u \in Tasks : u < t => tasks[u].pc # "idle"

\* serde_json::to_vec fails, whatever the request: return
\* INTERNAL_SERVER_ERROR, nothing stored
StoreChunkEncodeErr(t) ==
    /\ FreeSlot(t)
    /\ last' = [NoLast EXCEPT !.op = "store_ret",
                   !.status = StoreStatus(FALSE, FALSE, FALSE)]
    /\ UNCHANGED <<db, disk, pending, tasks, latest, acked, written, nwrites>>

\* db.insert fails, whatever the request: return INTERNAL_SERVER_ERROR,
\* no flush is issued
StoreChunkInsertErr(t) ==
    /\ FreeSlot(t)
    /\ last' = [NoLast EXCEPT !.op = "store_ret", !.encOk = TRUE, !.nput = 1,
                   !.status = StoreStatus(TRUE, FALSE, FALSE)]
    /\ UNCHANGED <<db, disk, pending, tasks, latest, acked, written, nwrites>>

\* to_vec and db.insert succeed; the task suspends in flush_async().await
StoreChunkInsert(t, file_key, chunk_hash, chunk_data) ==
    LET db_key      == DbKey(file_key, chunk_hash)
        value_bytes == ToVec(chunk_data)
        had         == db_key \in DOMAIN latest
    IN
    /\ FreeSlot(t)
    /\ nwrites < MaxPuts
    /\ nwrites' = nwrites + 1
    /\ db' = Insert(db, db_key, value_bytes)
    /\ pending' = Append(pending, [key |-> db_key, value |-> value_bytes])
    /\ tasks' = [tasks EXCEPT ![t] =
                   [pc |-> "flush", key |-> db_key, value |-> chunk_data,
                    need |-> Len(pending) + 1, over |-> db_key \in DOMAIN db]]
    /\ latest' = Record(latest, db_key,
                   [val |-> chunk_data, ok |-> FALSE, by |-> t, lost |-> FALSE,
                    prev |-> IF had THEN latest[db_key].val ELSE "",
                    prevOk |-> had /\ latest[db_key].ok])
    /\ written' = written \cup {file_key}
    /\ last' = [NoLast EXCEPT !.op = "store_put",
                   !.fileKey = file_key, !.key = db_key, !.value = chunk_data,
                   !.encOk = TRUE, !.putOk = TRUE, !.nput = 1,
                   !.over = db_key \in DOMAIN db]
    /\ UNCHANGED <<disk, acked>>

\* flush_async().await returns Ok: the handler returns StatusCode::OK
StoreChunkFlushOk(t) ==
    LET k == tasks[t].key IN
    /\ tasks[t].pc = "flush"
    /\ FlushState(Flushed(tasks[t].need))
    /\ tasks' = TasksAfterFlush(t, Flushed(tasks[t].need))
    /\ latest' = IF k \in DOMAIN latest /\ latest[k].by = t
                 THEN [latest EXCEPT ![k].ok = TRUE, ![k].by = 0]
                 ELSE latest
    /\ acked' = acked \cup {k}
    /\ last' = [NoLast EXCEPT !.op = "store_ret", !.key = k,
                   !.value = tasks[t].value, !.encOk = TRUE, !.putOk = TRUE,
                   !.flushOk = TRUE, !.nput = 1, !.nflush = 1,
                   !.over = tasks[t].over,
                   !.status = StoreStatus(TRUE, TRUE, TRUE)]
    /\ UNCHANGED <<db, written, nwrites>>

\* flush_async().await returns Err: INTERNAL_SERVER_ERROR; the put stays
\* applied and nothing more is known to be durable (what did reach the disk
\* is a step of BackgroundFlush)
StoreChunkFlushErr(t) ==
    LET k == tasks[t].key IN
    /\ tasks[t].pc = "flush"
    /\ tasks' = TasksAfterFlush(t, 0)
    /\ latest' = IF k \in DOMAIN latest /\ latest[k].by = t
                 THEN [latest EXCEPT ![k].by = 0]
                 ELSE latest
    /\ last' = [NoLast EXCEPT !.op = "store_ret", !.key = k,
                   !.value = tasks[t].value, !.encOk = TRUE, !.putOk = TRUE,
                   !.nput = 1, !.nflush = 1, !.over = tasks[t].over,
                   !.status = StoreStatus(TRUE, TRUE, FALSE)]
    /\ UNCHANGED <<db, disk, pending, acked, written, nwrites>>

(* ------------------------ retrieve_file_chunks ------------------------ *)
\* the whole handler: it has no await, and it changes nothing in the store
RetrieveFileChunks(file_key) ==
    \E nerr \in 0..MaxIterErrs : \E errAt \in 1..(1 + Min(nerr, 1)) :
       LET chunks == Collect(ScanPrefix(db, Prefix(file_key), nerr, errAt)) IN
       /\ last' = [NoLast EXCEPT !.op = "retrieve", !.fileKey = file_key,
                      !.respFileKey = file_key,   \* FileChunksResponse { file_key, chunks }
                      !.chunks = chunks, !.nerr = nerr,
                      !.status = RetrieveStatus(nerr)]
       /\ UNCHANGED <<db, disk, pending, tasks, latest, acked, written,
                      nwrites>>

(* --------------------------- environment ------------------------------ *)
\* sled's flusher makes the oldest pending put durable
BackgroundFlush ==
    /\ pending # <<>>
    /\ FlushState(1)
    /\ tasks' = [u \in Tasks |->
                   [tasks[u] EXCEPT !.need = Max(0, tasks[u].need - 1)]]
    /\ last' = [NoLast EXCEPT !.op = "bgflush"]
    /\ UNCHANGED <<db, latest, acked, written, nwrites>>

\* the process dies and main() reopens the database: what was not flushed
\* is gone, and so is every request in flight (with nothing unflushed and
\* nothing in flight a restart changes nothing, and is left out)
Crash ==
    /\ pending # <<>> \/ \E t \in Tasks : tasks[t].pc # "idle"
    /\ db' = disk
    /\ pending' = <<>>
    /\ tasks' = [t \in Tasks |-> IdleTask]
    /\ latest' = [k \in DOMAIN latest |->
                     [latest[k] EXCEPT
                        !.by = 0,
                        !.lost = ~(k \in DOMAIN disk /\ disk[k] = ToVec(latest[k].val))]]
    /\ last' = [NoLast EXCEPT !.op = "crash", !.lost = Len(pending)]
    /\ UNCHANGED <<disk, acked, written, nwrites>>

Next ==
    \/ \E t \in Tasks : StoreChunkEncodeErr(t)
    \/ \E t \in Tasks : StoreChunkInsertErr(t)
    \/ \E t \in Tasks, r \in StoreRequests :
          StoreChunkInsert(t, r[1], r[2], r[3])
    \/ \E t \in Tasks : StoreChunkFlushOk(t)
    \/ \E t \in Tasks : StoreChunkFlushErr(t)
    \/ \E f \in ReadKeys : RetrieveFileChunks(f)
    \/ BackgroundFlush
    \/ Crash

Spec == Init /\ [][Next]_vars

\* db is always disk with the pending puts applied
TypeOK ==
    /\ db = Replay(disk, pending)
    /\ \A t \in Tasks : tasks[t].need <= Len(pending)

(* ======================== the claims ================================== *)
\* a GET /file/:fileKey has just been answered
ReadDone == last.op = "retrieve"
\* a POST /store has just been answered
StoreDone == last.op = "store_ret"
\* the positions of the records with key k in the response just given
RecordsOf(k) == {i \in DOMAIN last.chunks : last.chunks[i].key = k}
\* s holds no separator
NoSeparator(s) == \A i \in 1..Len(s) : s[i] # 58
\* key k is the storage key of a chunk of file f
KeyUnder(f, k) == \E h \in ChunkHashes : k = f \o <<58>> \o h

\* C1 Read-after-write: when the put applied last to fileKey:chunkHash
\* belongs to a store_chunk call that has returned 200, a read of fileKey
\* returns a record with key fileKey ":" chunkHash and that call's payload.
C1_ReadAfterWrite ==
    ReadDone =>
        \A f \in FileKeys, h \in ChunkHashes :
            LET k == f \o <<58>> \o h IN
            (f = last.fileKey /\ k \in DOMAIN latest /\ latest[k].ok) =>
                \E i \in DOMAIN last.chunks :
                    /\ last.chunks[i].key = k
                    /\ last.chunks[i].value = latest[k].val

\* a read of "a" that returns the acknowledged chunk a:b
C1_Witness ==
    /\ ReadDone
    /\ last.fileKey = <<97>>
    /\ <<97, 58, 98>> \in DOMAIN latest
    /\ latest[<<97, 58, 98>>].ok
    /\ \E i \in DOMAIN last.chunks :
          last.chunks[i] = [key |-> <<97, 58, 98>>, value |-> "QQ=="]

\* C2 Durable acknowledgment: a key some call answered 200 for is on disk
\* (and so in the store after any crash), and while that call's put is the
\* last one applied to the key, the disk holds that call's payload.
C2_DurableAck ==
    /\ \A k \in acked : k \in DOMAIN disk /\ k \in DOMAIN db
    /\ \A k \in DOMAIN latest :
          latest[k].ok => k \in DOMAIN disk /\ disk[k] = ToVec(latest[k].val)

\* a crash that discarded unflushed puts of another writer, after a 200
C2_Witness ==
    /\ last.op = "crash"
    /\ last.lost > 0
    /\ acked # {}
    /\ \A k \in acked : k \in DOMAIN db

\* C3 Prefix isolation: a read of a separator-free fileKey f returns no
\* record whose key is the storage key of a chunk of another separator-free
\* fileKey g, also when f is a proper prefix of g.
C3_PrefixIsolation ==
    (ReadDone /\ NoSeparator(last.fileKey)) =>
        \A i \in DOMAIN last.chunks :
            \A g \in FileKeys :
                (g # last.fileKey /\ NoSeparator(g)) =>
                    ~KeyUnder(g, last.chunks[i].key)

\* a read of "a" that returns records while a chunk of "ab" is stored
C3_Witness ==
    /\ ReadDone
    /\ last.fileKey = <<97>>
    /\ <<97, 98, 58, 97>> \in DOMAIN db
    /\ FromSlice(db[<<97, 98, 58, 97>>]).ok
    /\ last.chunks # <<>>

\* C4 Ordered result: the records of a response are in strictly ascending
\* byte-wise key order, and the chunks of the requested fileKey among them
\* are in ascending chunkHash order, whatever the order of the writes.
C4_OrderedResult ==
    ReadDone =>
        \A i, j \in DOMAIN last.chunks :
            i < j =>
                /\ LexLess(last.chunks[i].key, last.chunks[j].key)
                /\ \A h1, h2 \in ChunkHashes :
                      ( /\ last.chunks[i].key = last.fileKey \o <<58>> \o h1
                        /\ last.chunks[j].key = last.fileKey \o <<58>> \o h2 )
                      => LexLess(h1, h2)

\* chunks written in the order a, c, b and read back as a, b, c
C4_Witness ==
    /\ ReadDone
    /\ last.fileKey = <<97>>
    /\ Len(pending) = 3
    /\ pending[1].key = <<97, 58, 97>>
    /\ pending[2].key = <<97, 58, 99>>
    /\ pending[3].key = <<97, 58, 98>>
    /\ [i \in DOMAIN last.chunks |-> last.chunks[i].key]
          = << <<97, 58, 97>>, <<97, 58, 98>>, <<97, 58, 99>> >>

\* C5 Last-writer-wins without duplication: after two acknowledged writes of
\* one key, the second put after the first call returned, a read returns
\* exactly one record with that key, carrying the second payload; and a
\* call that overwrites is answered 200 like a first write.
C5_LastWriterWins ==
    /\ ReadDone =>
          \A k \in DOMAIN latest :
              ( /\ latest[k].ok
                /\ latest[k].prevOk
                /\ KeyUnder(last.fileKey, k) ) =>
                  /\ Cardinality(RecordsOf(k)) = 1
                  /\ \A i \in RecordsOf(k) : last.chunks[i].value = latest[k].val
    /\ (StoreDone /\ last.over /\ last.encOk /\ last.putOk /\ last.flushOk)
          => last.status = 200

\* a:a written with "QQ==", acknowledged, written with "Qg==", acknowledged,
\* then read
C5_Witness ==
    /\ ReadDone
    /\ last.fileKey = <<97>>
    /\ <<97, 58, 97>> \in DOMAIN latest
    /\ latest[<<97, 58, 97>>].ok
    /\ latest[<<97, 58, 97>>].prevOk
    /\ latest[<<97, 58, 97>>].prev = "QQ=="
    /\ latest[<<97, 58, 97>>].val = "Qg=="
    /\ Cardinality(RecordsOf(<<97, 58, 97>>)) = 1

\* entry k of the store is one the read path can decode: a Chunk Record
IsRecord(store, k) ==
    k \in DOMAIN store /\ Utf8Valid(k) /\ FromSlice(store[k]).ok

\* C6 Read failure is reported: a scan whose iterator yielded an error is
\* answered with a server-fault status.
C6_ReadFailureReported ==
    (ReadDone /\ last.nerr > 0) => last.status = 500

\* C7 Write outcome mapping with no retry: the status is 200 exactly when
\* encode, put and flush all succeeded and 500 otherwise; a call issues at
\* most one put and one flush, no put after a failed encode and no flush
\* after a failed put; and a 200 leaves the key in the store and on disk.
C7_WriteOutcome ==
    StoreDone =>
        /\ last.status = 200 <=> (last.encOk /\ last.putOk /\ last.flushOk)
        /\ last.status # 200 => last.status = 500
        /\ last.nput <= 1 /\ last.nflush <= 1
        /\ ~last.encOk => last.nput = 0
        /\ ~last.putOk => last.nflush = 0
        /\ last.status = 200 => last.key \in DOMAIN db /\ last.key \in DOMAIN disk

\* a put that succeeded, one flush that failed, answered 500
C7_Witness ==
    /\ StoreDone
    /\ last.putOk /\ ~last.flushOk
    /\ last.nput = 1 /\ last.nflush = 1
    /\ last.status = 500
    /\ last.key \in DOMAIN db

\* C8 Skip-on-corruption: a read is answered 200 and returns, once each and
\* in ascending key order, exactly the entries under fileKey ":" whose key
\* is UTF-8 and whose value decodes, with the decoded value; an entry that
\* does not decode is left out and ends nothing.
C8_SkipOnCorruption ==
    ReadDone =>
        LET under == {k \in DOMAIN db :
                         StartsWith(last.fileKey \o <<58>>, k) /\ IsRecord(db, k)}
        IN
        /\ last.status = 200
        /\ {last.chunks[i].key : i \in DOMAIN last.chunks} = under
        /\ Len(last.chunks) = Cardinality(under)
        /\ \A i \in DOMAIN last.chunks :
              db[last.chunks[i].key] = << "{\"value\":", last.chunks[i].value, "}" >>
        /\ \A i, j \in DOMAIN last.chunks :
              i < j => LexLess(last.chunks[i].key, last.chunks[j].key)

\* "a:a" holds bytes that are no envelope and "a:\xFF" is no UTF-8 key;
\* the read of "a" returns a:b and a:c, which follow a:a in key order
C8_Witness ==
    /\ ReadDone
    /\ last.fileKey = <<97>>
    /\ <<97, 58, 97>> \in DOMAIN db /\ ~FromSlice(db[<<97, 58, 97>>]).ok
    /\ <<97, 58, 255>> \in DOMAIN db
    /\ [i \in DOMAIN last.chunks |-> last.chunks[i].key]
          = << <<97, 58, 98>>, <<97, 58, 99>> >>

\* C9 Empty read is success: a read of a fileKey under which no put was
\* ever applied is answered 200 with no chunks and the fileKey echoed.
C9_EmptyReadIsSuccess ==
    (ReadDone /\ last.fileKey \notin written) =>
        /\ last.status = 200
        /\ last.chunks = <<>>
        /\ last.respFileKey = last.fileKey

\* C10 as stated: no step of the engine changes or removes a stored record.
C10_StoredValueNeverChanges ==
    [][ last'.op # "crash" =>
          \A k \in DOMAIN db :
              IsRecord(db, k) => (k \in DOMAIN db' /\ db'[k] = db[k]) ]_vars

\* C10 amended: a step of the engine never removes a stored record, and it
\* changes the value of one only by the put of a store_chunk call on that
\* same key, which replaces it with that call's payload.
C10_ChangedOnlyByOwnPut ==
    [][ last'.op # "crash" =>
          \A k \in DOMAIN db :
              IsRecord(db, k) =>
                  /\ k \in DOMAIN db'
                  /\ \/ db'[k] = db[k]
                     \/ /\ last'.op = "store_put"
                        /\ last'.key = k
                        /\ db'[k] = << "{\"value\":", last'.value, "}" >> ]_vars

\* a put has just replaced the payload of a:a with another one, while the
\* record a:b is stored too
C10_Witness ==
    /\ last.op = "store_put"
    /\ last.key = <<97, 58, 97>>
    /\ last.over
    /\ latest[last.key].prev # ""
    /\ latest[last.key].prev # latest[last.key].val
    /\ IsRecord(db, <<97, 58, 98>>)

\* C11 Records come only from successful writes: every record a read
\* returns has a key that some store_chunk call answered 200 for (a call
\* still suspended in its flush is not held against the claim), so a call
\* answered 500 leaves no record of its own visible.
C11_OnlyAckedVisible ==
    ReadDone =>
        \A i \in DOMAIN last.chunks :
            \/ last.chunks[i].key \in acked
            \/ \E t \in Tasks :
                  tasks[t].pc = "flush" /\ tasks[t].key = last.chunks[i].key

\* C12 Same-key race: whatever the interleaving of the puts and flushes of
\* calls on one key, the store holds under that key the payload of the put
\* applied last (of those no crash discarded), a read returns exactly one
\* record for the key, with that payload, and a call whose put and flush
\* succeeded is answered 200 also when another call's put overtook its own.
C12_SameKeyRace ==
    /\ \A k \in DOMAIN latest :
          ~latest[k].lost => k \in DOMAIN db /\ db[k] = ToVec(latest[k].val)
    /\ ReadDone =>
          \A k \in DOMAIN latest :
              (~latest[k].lost /\ StartsWith(last.fileKey \o <<58>>, k)) =>
                  /\ Cardinality(RecordsOf(k)) = 1
                  /\ \A i \in RecordsOf(k) : last.chunks[i].value = latest[k].val
    /\ (StoreDone /\ last.putOk /\ last.flushOk) => last.status = 200

\* two calls on a:a were in flight together; the one whose put was applied
\* second returned 200 first, now the other returns 200 too, and the store
\* holds the payload of the second put
C12_Witness ==
    /\ StoreDone
    /\ last.status = 200
    /\ last.key = <<97, 58, 97>>
    /\ latest[last.key].ok
    /\ latest[last.key].val # last.value
    /\ \A t \in Tasks : tasks[t].pc = "idle"
    /\ db[last.key] = ToVec(latest[last.key].val)

\* C13 Writes to distinct keys are independent: the put of a call writes
\* that call's payload under its own key and leaves every other entry as it
\* was, the return of a call changes no entry, and so when the last of
\* several calls returns, every key holds the payload of its latest put.
C13_DistinctKeysIndependent ==
    [][ /\ last'.op = "store_put" =>
              /\ DOMAIN db' = DOMAIN db \cup {last'.key}
              /\ db'[last'.key] = << "{\"value\":", last'.value, "}" >>
              /\ \A k \in DOMAIN db : k # last'.key => db'[k] = db[k]
        /\ last'.op = "store_ret" =>
              /\ db' = db
              /\ (\A t \in Tasks : tasks'[t].pc = "idle") =>
                    \A k \in DOMAIN latest' :
                        ~latest'[k].lost =>
                            db'[k] = << "{\"value\":", latest'[k].val, "}" >> ]_vars

\* two calls on different keys were in flight together; the one that put
\* second has returned 200 while the first is still in its flush, and both
\* records are stored, each with its own payload
C13_Witness ==
    /\ StoreDone
    /\ last.status = 200
    /\ tasks[1].pc = "flush"
    /\ tasks[1].key # last.key
    /\ db[last.key] = ToVec(last.value)
    /\ db[tasks[1].key] = ToVec(tasks[1].value)

\* C14 Separator collision: a put under a fileKey that contains ":" is
\* applied like any other, its key being fileKey ":" chunkHash verbatim; and
\* a read of fileKey f returns every stored chunk of another fileKey g that
\* starts with f ":" (for instance f = "a", g = "a:b", chunkHash "c").
C14_SeparatorCollision ==
    /\ (last.op = "store_put" /\ ~NoSeparator(last.fileKey)) =>
          /\ KeyUnder(last.fileKey, last.key)
          /\ IsRecord(db, last.key)
    /\ ReadDone =>
          \A g \in FileKeys, h \in ChunkHashes :
              ( /\ g # last.fileKey
                /\ StartsWith(last.fileKey \o <<58>>, g)
                /\ IsRecord(db, g \o <<58>> \o h) ) =>
                  \E i \in DOMAIN last.chunks :
                      last.chunks[i].key = g \o <<58>> \o h

\* the only put ever applied was under fileKey "a:b" (chunkHash "c"), and a
\* read of "a" returns that chunk
C14_Witness ==
    /\ ReadDone
    /\ last.fileKey = <<97>>
    /\ written = { <<97, 58, 98>> }
    /\ last.chunks = << [key |-> <<97, 58, 98, 58, 99>>, value |-> "Qg=="] >>

\* what a read of fileKey f returns from the store as it stands
ReadView(f) ==
    LET keys == KeyOrder({k \in DOMAIN db : StartsWith(f \o <<58>>, k)})
    IN  Collect([i \in 1..Len(keys) |->
                    [ok |-> TRUE, key |-> keys[i], value |-> db[keys[i]]]])

\* C15 (as stated) Reads are side-effect free and uncached: a read changes
\* nothing in the store and returns the store's contents as they stand, and
\* what a read of a fileKey returns changes only when a put is applied, so
\* two reads with no put between them return identical sequences.
C15_ReadsStable ==
    [][ /\ last'.op = "retrieve" =>
              /\ db' = db /\ disk' = disk /\ pending' = pending
              /\ last'.chunks = ReadView(last'.fileKey)
        /\ last'.op # "store_put" =>
              \A f \in ReadKeys : ReadView(f)' = ReadView(f) ]_vars

\* C15 (amended) A read changes nothing in the store (visible contents,
\* durable contents, unflushed puts, requests in flight) and returns the
\* store's contents as they stand, whether or not the iterator reported
\* errors; the visible contents, hence what a read returns, change only
\* when a put is applied or when a crash discards unflushed puts.
C15_ReadsStableUnlessCrash ==
    [][ /\ last'.op = "retrieve" =>
              /\ db' = db /\ disk' = disk /\ pending' = pending
              /\ tasks' = tasks
              /\ last'.chunks = ReadView(last'.fileKey)
        /\ last'.op \notin {"store_put", "crash"} => db' = db ]_vars

\* a read, whose iterator reported an error, returns the current payload of
\* a:a, a completed overwrite of an earlier completed write
C15_Witness ==
    /\ ReadDone /\ last.nerr = 1 /\ last.fileKey = <<97>>
    /\ <<97, 58, 97>> \in DOMAIN latest
    /\ latest[<<97, 58, 97>>].ok /\ latest[<<97, 58, 97>>].prevOk
    /\ latest[<<97, 58, 97>>].prev # latest[<<97, 58, 97>>].val
    /\ \E i \in DOMAIN last.chunks :
          /\ last.chunks[i].key = <<97, 58, 97>>
          /\ last.chunks[i].value = latest[<<97, 58, 97>>].val

\* C16 No record is lost: on every step other than a crash, no key leaves
\* the store and an entry a read can decode stays one a read can decode;
\* and a read of fileKey returns a record for every such entry under
\* fileKey ":".  So a key a read has returned is returned by every later
\* read of that fileKey, absent a crash.
C16_NoRecordLost ==
    [][ last'.op # "crash" =>
          /\ DOMAIN db \subseteq DOMAIN db'
          /\ \A k \in DOMAIN db : IsRecord(db, k) => IsRecord(db', k)
          /\ last'.op = "retrieve" =>
                \A k \in DOMAIN db' :
                    (StartsWith(last'.fileKey \o <<58>>, k) /\ IsRecord(db', k)) =>
                        \E i \in DOMAIN last'.chunks : last'.chunks[i].key = k ]_vars

\* three puts under "a" have been applied and completed, and a read of "a"
\* returns the three keys a:a, a:b, a:c
C16_Witness ==
    /\ ReadDone /\ last.fileKey = <<97>>
    /\ nwrites = 3
    /\ pending = <<>> /\ \A t \in Tasks : tasks[t].pc = "idle"
    /\ Len(last.chunks) = 3
    /\ last.chunks[1].key = <<97, 58, 97>>
    /\ last.chunks[2].key = <<97, 58, 98>>
    /\ last.chunks[3].key = <<97, 58, 99>>

\* C17 (as stated) Read soundness: every record a read of fileKey returns
\* has a key that begins with fileKey ":" and is the storage key built by an
\* earlier put, its value is the payload of the most recent put applied to
\* that key, no key appears twice, and the response's fileKey is the
\* requested one.
C17_ReadSound ==
    ReadDone =>
        /\ last.respFileKey = last.fileKey
        /\ \A i \in DOMAIN last.chunks :
              /\ StartsWith(last.fileKey \o <<58>>, last.chunks[i].key)
              /\ last.chunks[i].key \in DOMAIN latest
              /\ last.chunks[i].value = latest[last.chunks[i].key].val
              /\ Cardinality(RecordsOf(last.chunks[i].key)) = 1

\* C17 (amended) Read soundness: every record a read of fileKey returns has
\* a key that begins with fileKey ":" and is the storage key built by an
\* earlier put, its value is the payload of the most recent put applied to
\* that key unless a crash has discarded that put, no key appears twice, and
\* the response's fileKey is the requested one.
C17_ReadSoundUnlessLost ==
    ReadDone =>
        /\ last.respFileKey = last.fileKey
        /\ \A i \in DOMAIN last.chunks :
              /\ StartsWith(last.fileKey \o <<58>>, last.chunks[i].key)
              /\ last.chunks[i].key \in DOMAIN latest
              /\ ~latest[last.chunks[i].key].lost =>
                    last.chunks[i].value = latest[last.chunks[i].key].val
              /\ Cardinality(RecordsOf(last.chunks[i].key)) = 1

\* a read of "a" returns two records: the most recent put on the key of one
\* was discarded by a crash, the most recent put on the key of the other
\* is the one whose payload is returned
C17_Witness ==
    /\ ReadDone /\ last.fileKey = <<97>>
    /\ Len(last.chunks) = 2
    /\ latest[last.chunks[1].key].lost
    /\ last.chunks[1].value = latest[last.chunks[1].key].prev
    /\ ~latest[last.chunks[2].key].lost
    /\ last.chunks[2].value = latest[last.chunks[2].key].val

====
